---- MODULE Spec2Model ----
(***************************************************************************)
(* Model of env-lock (src/src/lib.rs): a process-wide mutex guarding the   *)
(* process environment, lock_env() which snapshots and overwrites the      *)
(* given variables, and EnvGuard whose Drop restores the snapshot before   *)
(* the mutex guard it owns is released.                                    *)
(***************************************************************************)
EXTENDS Integers, Sequences, FiniteSets, TLC

\* ------------------------------------------------------------------ bounds
NumThreads == 2      \* threads calling lock_env
MaxLen == 2          \* longest `variables` input
MaxWrites == 1       \* environment writes made by one critical section

Threads == 1..NumThreads

\* ------------------------------------------------------- values and options
\* Option<T>: None is the empty tuple, Some(v) the one-element tuple.
None == <<>>
Some(v) == <<v>>

\* Names the platform accepts, and one it rejects (env::set_var and
\* env::remove_var panic on an empty name, or one holding '=' or NUL).
Names == {"X", "Y"}
InvalidNames == {""}
UnicodeValues == {"a", "b"}
NonUnicode == "\\xFF"
\* A valid &str holding a NUL byte: env::set_var panics on such a value.
NulValue == "a\\0b"
EnvValues == {None} \cup {Some(v) : v \in UnicodeValues \cup {NonUnicode}}
\* Of a value the code and the platform only look at whether it is valid
\* Unicode (env::var) and whether it holds a NUL byte (env::set_var), so one
\* plain value stands for those lock_env and the critical section write,
\* another for those found in the environment at the start, and one value
\* holds a NUL.
\* new_value: Option<impl AsRef<str>>, always valid Unicode when present
NewValues == {None, Some("a"), Some(NulValue)}
\* What a variable may hold before the first lock_env call.
InitValues == {None, Some("b"), Some(NonUnicode)}
Pairs == (Names \cup InvalidNames) \X NewValues

VARIABLES
    env,              \* the process environment: Names -> Option<OsString>
    locked,           \* ENV_MUTEX is locked
    poisoned,         \* ENV_MUTEX's poison flag
    pc,               \* where each thread is
    guard,            \* what each thread owns: "none", "MutexGuard", "EnvGuard"
    variables,        \* the pairs lock_env has taken from its input so far
    previous_values,  \* the snapshot being collected / EnvGuard.previous_values
    restored,         \* entries EnvGuard::drop's loop has written back
    panicking,        \* std::thread::panicking() of each thread
    writes,           \* environment writes made by the critical section
    entry_env,        \* history: the environment when the thread got the mutex
    init_env          \* history: the environment of the initial state

vars == <<env, locked, poisoned, pc, guard, variables, previous_values,
          restored, panicking, writes, entry_env, init_env>>

EmptyEnv == [n \in Names |-> None]

\* ---------------------------------------------------------- std::env calls
\* env::var(variable).ok(): None when unset, when the value is not valid
\* Unicode, and when the name is not one the platform can hold.
EnvVarOk(e, variable) ==
    IF variable \in Names /\ e[variable] # None
          /\ e[variable][1] \in UnicodeValues
    THEN e[variable]
    ELSE None

\* env::set_var / env::remove_var panic on a name the platform rejects, and
\* env::set_var on a value holding a NUL byte.
SetVarPanics(variable, value) ==
    \/ variable \in InvalidNames
    \/ value # None /\ value[1] = NulValue

\* Mutation: the write replaces the whole environment by the one variable.
SetOrRemoveClobber(e, variable, value) ==
    [n \in Names |-> IF n = variable THEN value ELSE None]

\* Mutation: the else branch is lost, a None leaves the variable as it is.
SetOnly(e, variable, value) ==
    IF value = None THEN e ELSE [e EXCEPT ![variable] = value]

\* if let Some(value) = x { env::set_var(variable, value) }
\* else { env::remove_var(variable) }
SetOrRemove(e, variable, value) == [e EXCEPT ![variable] = value]

\* ------------------------------------------------------------- the mutex
\* Mutation: lock() never blocks.
MutexAlwaysAvailable(t) == TRUE

\* Mutation: a re-entrant mutex, the owner may lock again.
MutexReentrant(t) == ~locked \/ guard[t] # "none"

\* ENV_MUTEX.lock() blocks while the mutex is locked, whoever holds it.
MutexAvailable(t) == ~locked

\* Mutation: .unwrap(), which panics on a PoisonError.
Unwrap(is_poisoned) == IF is_poisoned THEN "panic" ELSE "guard"

\* .unwrap_or_else(|error| error.into_inner()): the guard, poisoned or not.
UnwrapOrElseIntoInner(is_poisoned) == "guard"

TypeOK ==
    /\ env \in [Names -> EnvValues]
    /\ locked \in BOOLEAN
    /\ poisoned \in BOOLEAN
    /\ pc \in [Threads -> {"idle", "lock", "apply", "held", "drop",
                           "unlock"}]
    /\ guard \in [Threads -> {"none", "MutexGuard", "EnvGuard"}]
    /\ \A t \in Threads :
          /\ Len(variables[t]) <= MaxLen
          /\ Len(previous_values[t]) <= Len(variables[t])
          /\ restored[t] \in 0..Len(previous_values[t])
          /\ writes[t] \in 0..MaxWrites
    /\ panicking \in [Threads -> BOOLEAN]
    /\ init_env \in [Names -> EnvValues]

Init ==
    /\ env \in [Names -> InitValues]
    /\ init_env = env
    /\ locked = FALSE
    /\ poisoned = FALSE
    /\ pc = [t \in Threads |-> "idle"]
    /\ guard = [t \in Threads |-> "none"]
    /\ variables = [t \in Threads |-> <<>>]
    /\ previous_values = [t \in Threads |-> <<>>]
    /\ restored = [t \in Threads |-> 0]
    /\ panicking = [t \in Threads |-> FALSE]
    /\ writes = [t \in Threads |-> 0]
    /\ entry_env = [t \in Threads |-> EmptyEnv]

\* ---------------------------------------------------------------- lock_env
\* A thread that owns nothing calls lock_env and reaches ENV_MUTEX.lock().
Call(t) ==
    /\ pc[t] = "idle"
    /\ pc' = [pc EXCEPT ![t] = "lock"]
    /\ UNCHANGED <<env, locked, poisoned, guard, variables, previous_values,
                   restored, panicking, writes, entry_env, init_env>>

\* A thread calls lock_env again while its EnvGuard is alive.
NestedCall(t) ==
    /\ pc[t] = "held"
    /\ pc' = [pc EXCEPT ![t] = "lock"]
    /\ UNCHANGED <<env, locked, poisoned, guard, variables, previous_values,
                   restored, panicking, writes, entry_env, init_env>>

\* let guard = ENV_MUTEX.lock().unwrap_or_else(|error| error.into_inner());
Lock(t) ==
    /\ pc[t] = "lock"
    /\ MutexAvailable(t)
    /\ locked' = TRUE
    /\ guard' = [guard EXCEPT ![t] = "MutexGuard"]
    /\ entry_env' = [entry_env EXCEPT ![t] = env]
    /\ IF UnwrapOrElseIntoInner(poisoned) = "guard"
       THEN /\ pc' = [pc EXCEPT ![t] = "apply"]
            /\ UNCHANGED panicking
       ELSE \* the PoisonError, and the guard in it, is dropped by the unwind
            /\ pc' = [pc EXCEPT ![t] = "unlock"]
            /\ panicking' = [panicking EXCEPT ![t] = TRUE]
    /\ UNCHANGED <<env, poisoned, variables, previous_values, restored,
                   writes, init_env>>

\* Mutation: every old value is read before any pair is applied.
PreviousValueAtEntry(t, variable) == EnvVarOk(entry_env[t], variable)

\* let previous_value = env::var(variable).ok(): read when the pair is
\* reached, after the earlier pairs were applied.
PreviousValue(t, variable) == EnvVarOk(env, variable)

\* One turn of variables.into_iter().map(..): the closure reads the old
\* value, sets or removes the variable, and yields (variable, previous_value).
\* A panic in set_var/remove_var unwinds out of lock_env: the local `guard`
\* is dropped, no EnvGuard was built.
ApplyPair(t, pair) ==
    /\ pc[t] = "apply"
    /\ Len(variables[t]) < MaxLen
    /\ LET variable == pair[1]
           new_value == pair[2]
           previous_value == PreviousValue(t, variable)
       IN  /\ variables' = [variables EXCEPT ![t] = Append(@, pair)]
           /\ IF SetVarPanics(variable, new_value)
              THEN /\ panicking' = [panicking EXCEPT ![t] = TRUE]
                   /\ pc' = [pc EXCEPT ![t] = "unlock"]
                   /\ UNCHANGED <<env, previous_values>>
              ELSE /\ env' = SetOrRemove(env, variable, new_value)
                   /\ previous_values' =
                        [previous_values EXCEPT
                           ![t] = Append(@, <<variable, previous_value>>)]
                   /\ UNCHANGED <<pc, panicking>>
    /\ UNCHANGED <<locked, poisoned, guard, restored, writes, entry_env,
                   init_env>>

ApplyNext(t) == \E pair \in Pairs : ApplyPair(t, pair)

\* The iterator is exhausted: collect() finishes and lock_env returns
\* EnvGuard { previous_values, guard }.
ApplyEnd(t) ==
    /\ pc[t] = "apply"
    /\ pc' = [pc EXCEPT ![t] = "held"]
    /\ guard' = [guard EXCEPT ![t] = "EnvGuard"]
    /\ UNCHANGED <<env, locked, poisoned, variables, previous_values,
                   restored, panicking, writes, entry_env, init_env>>

\* ------------------------------------------------------ the critical section
NamedIn(vs) == {vs[i][1] : i \in 1..Len(vs)}

\* The holder sets or removes one of the variables it named (a write that
\* panics changes nothing and is a CsPanic).
CsWrite(t) ==
    /\ pc[t] = "held"
    /\ writes[t] < MaxWrites
    /\ \E variable \in NamedIn(variables[t]), value \in NewValues :
         /\ ~SetVarPanics(variable, value)
         /\ env' = SetOrRemove(env, variable, value)
    /\ writes' = [writes EXCEPT ![t] = @ + 1]
    /\ UNCHANGED <<locked, poisoned, pc, guard, variables, previous_values,
                   restored, panicking, entry_env, init_env>>

\* The scope holding the guard ends normally: EnvGuard::drop starts.
CsExit(t) ==
    /\ pc[t] = "held"
    /\ pc' = [pc EXCEPT ![t] = "drop"]
    /\ UNCHANGED <<env, locked, poisoned, guard, variables, previous_values,
                   restored, panicking, writes, entry_env, init_env>>

\* The critical section panics: the unwind drops the EnvGuard.
CsPanic(t) ==
    /\ pc[t] = "held"
    /\ pc' = [pc EXCEPT ![t] = "drop"]
    /\ panicking' = [panicking EXCEPT ![t] = TRUE]
    /\ UNCHANGED <<env, locked, poisoned, guard, variables, previous_values,
                   restored, writes, entry_env, init_env>>

\* ----------------------------------------------------------- EnvGuard::drop
\* Mutation: the loop is skipped, drop() returns at once.
RestoreSkipped(t) == TRUE

\* for (variable, value) in &self.previous_values: loop finished?
RestoreDone(t) == restored[t] = Len(previous_values[t])

\* Mutation: the snapshot is walked backwards, .iter().rev().
NextEntryReversed(t) ==
    previous_values[t][Len(previous_values[t]) - restored[t]]

\* The entry the for loop over &self.previous_values reaches next.
NextEntry(t) == previous_values[t][restored[t] + 1]

\* One turn of the loop: write one snapshot entry back.
RestoreNext(t) ==
    /\ pc[t] = "drop"
    /\ ~RestoreDone(t)
    /\ LET entry == NextEntry(t)
       IN  env' = SetOrRemove(env, entry[1], entry[2])
    /\ restored' = [restored EXCEPT ![t] = @ + 1]
    /\ UNCHANGED <<locked, poisoned, pc, guard, variables, previous_values,
                   panicking, writes, entry_env, init_env>>

\* drop() returns; the fields are dropped next, previous_values then guard.
RestoreEnd(t) ==
    /\ pc[t] = "drop"
    /\ RestoreDone(t)
    /\ pc' = [pc EXCEPT ![t] = "unlock"]
    /\ UNCHANGED <<env, locked, poisoned, guard, variables, previous_values,
                   restored, panicking, writes, entry_env, init_env>>

\* The MutexGuard is dropped: it poisons the mutex when the thread is
\* panicking, and unlocks it.  Nothing is left to unwind: a panic ends in
\* panic::catch_unwind and the thread runs on.
Unlock(t) ==
    /\ pc[t] = "unlock"
    /\ locked' = FALSE
    /\ poisoned' = (poisoned \/ panicking[t])
    /\ guard' = [guard EXCEPT ![t] = "none"]
    /\ pc' = [pc EXCEPT ![t] = "idle"]
    /\ panicking' = [panicking EXCEPT ![t] = FALSE]
    /\ variables' = [variables EXCEPT ![t] = <<>>]
    /\ previous_values' = [previous_values EXCEPT ![t] = <<>>]
    /\ restored' = [restored EXCEPT ![t] = 0]
    /\ writes' = [writes EXCEPT ![t] = 0]
    /\ entry_env' = [entry_env EXCEPT ![t] = EmptyEnv]
    /\ UNCHANGED <<env, init_env>>

\* ================================================================ properties
\* The value the last pair naming `variable` asks for.
LastNewValue(vs, variable) ==
    LET last == CHOOSE i \in 1..Len(vs) :
                   /\ vs[i][1] = variable
                   /\ \A j \in (i+1)..Len(vs) : vs[j][1] # variable
    IN  vs[last][2]

\* The previous_value of the last snapshot entry naming `variable`.
LastPreviousValue(pv, variable) ==
    LET last == CHOOSE i \in 1..Len(pv) :
                   /\ pv[i][1] = variable
                   /\ \A j \in (i+1)..Len(pv) : pv[j][1] # variable
    IN  pv[last][2]

\* C1: restore round-trip.  When EnvGuard::drop has finished its loop and the
\* critical section wrote nothing, the environment equals the environment
\* lock_env found when it obtained the mutex.
C1_RestoreRoundTrip ==
    \A t \in Threads :
        (pc[t] = "unlock" /\ guard[t] = "EnvGuard" /\ writes[t] = 0)
            => env = entry_env[t]

\* C2: mutual exclusion.  At most one EnvGuard is alive at any time.
C2_MutualExclusion ==
    \A t, u \in Threads :
        (guard[t] = "EnvGuard" /\ guard[u] = "EnvGuard") => t = u

\* A guard is alive in its critical section while another thread is blocked.
C2_Witness ==
    \E t, u \in Threads :
        /\ t # u
        /\ guard[t] = "EnvGuard" /\ pc[t] = "held"
        /\ pc[u] = "lock" /\ guard[u] = "none"

\* C3: restoration precedes unlock.  The step that releases the mutex owned
\* by an EnvGuard is taken only after every snapshot entry was written back
\* (each variable holds what its last entry recorded), and the mutex is never
\* free while an EnvGuard is alive.
C3_RestorationPrecedesUnlock ==
    /\ [](\A t \in Threads : guard[t] = "EnvGuard" => locked)
    /\ [][\A t \in Threads :
            (guard[t] = "EnvGuard" /\ guard'[t] = "none") =>
                /\ restored[t] = Len(previous_values[t])
                /\ \A n \in NamedIn(previous_values[t]) :
                      env[n] = LastPreviousValue(previous_values[t], n)
                /\ env' = env]_vars

\* A guard with two snapshot entries has restored both and is about to unlock.
C3_Witness ==
    \E t \in Threads :
        /\ pc[t] = "unlock" /\ guard[t] = "EnvGuard" /\ locked
        /\ Len(previous_values[t]) = 2
        /\ restored[t] = 2

\* C4: restoration on panic.  When the unwind of a panicking critical section
\* drops the guard, every variable named in the acquisition is back at its
\* pre-acquisition value and the mutex is free.
C4_RestorationOnPanic ==
    [][\A t \in Threads :
         (panicking[t] /\ guard[t] = "EnvGuard" /\ guard'[t] = "none") =>
            /\ ~locked'
            /\ \A n \in NamedIn(variables[t]) : env'[n] = entry_env[t][n]]_vars

\* C5: poison tolerance.  A lock_env waiting on a free, poisoned mutex can
\* take it, and taking it goes on to apply the variables just as on an
\* unpoisoned mutex: no panic, the environment untouched by the lock step.
C5_PoisonTolerance ==
    /\ [](\A t \in Threads :
            (poisoned /\ pc[t] = "lock" /\ ~locked) => ENABLED Lock(t))
    /\ [][\A t \in Threads :
            (poisoned /\ pc[t] = "lock" /\ pc'[t] # "lock") =>
                /\ pc'[t] = "apply"
                /\ guard'[t] = "MutexGuard"
                /\ locked'
                /\ ~panicking'[t]
                /\ env' = env]_vars

\* A thread holds a guard it obtained from the poisoned mutex.
C5_Witness ==
    \E t \in Threads :
        /\ poisoned
        /\ pc[t] = "held" /\ guard[t] = "EnvGuard" /\ ~panicking[t]
        /\ previous_values[t] # <<>>

\* C6: desired values hold inside the critical section.  While a guard is
\* alive and its holder has not written the environment, every variable named
\* in the input holds the value of its last occurrence (or is unset).
C6_DesiredValuesHold ==
    \A t \in Threads :
        (guard[t] = "EnvGuard" /\ pc[t] \in {"held", "lock"} /\ writes[t] = 0)
            => \A n \in NamedIn(variables[t]) :
                  env[n] = LastNewValue(variables[t], n)

\* A guard is alive whose input names one variable twice, with different
\* values, while another thread waits in lock_env.
C6_Witness ==
    \E t, u \in Threads :
        /\ t # u /\ pc[u] = "lock"
        /\ guard[t] = "EnvGuard" /\ pc[t] = "held" /\ writes[t] = 0
        /\ Len(variables[t]) = 2
        /\ variables[t][1][1] = variables[t][2][1]
        /\ variables[t][1][2] # variables[t][2][2]

\* C7: blocking acquisition.  A thread inside lock_env takes no step (it
\* neither obtains the mutex, nor snapshots or applies a pair, nor returns)
\* while another thread's EnvGuard is alive.
C7_BlockingAcquisition ==
    [][\A t \in Threads :
         (/\ pc[t] \in {"lock", "apply"}
          /\ \/ pc'[t] # pc[t]
             \/ variables'[t] # variables[t]
             \/ previous_values'[t] # previous_values[t])
            => \A u \in Threads \ {t} : guard[u] # "EnvGuard"]_vars

\* A thread is blocked in lock_env while another thread's guard is alive and
\* that thread has written the environment.
C7_Witness ==
    \E t, u \in Threads :
        /\ t # u
        /\ pc[t] = "lock" /\ guard[t] = "none" /\ variables[t] = <<>>
        /\ guard[u] = "EnvGuard" /\ writes[u] > 0

\* C9: re-entrant acquisition self-deadlocks.  A thread that called lock_env
\* while holding an EnvGuard stays blocked in that call, and its guard stays
\* alive with the mutex locked.
C9_ReentrantDeadlock ==
    [][\A t \in Threads :
         (pc[t] = "lock" /\ guard[t] = "EnvGuard") =>
            (pc'[t] = "lock" /\ guard'[t] = "EnvGuard" /\ locked')]_vars

\* A thread is blocked in a nested lock_env call.
C9_Witness ==
    \E t \in Threads :
        pc[t] = "lock" /\ guard[t] = "EnvGuard" /\ previous_values[t] # <<>>

\* C10: the environment is pristine whenever the lock is free.  With no panic
\* so far, every state in which the mutex is free has the initial environment.
C10_PristineWhenFree ==
    (~locked /\ ~poisoned) => env = init_env

\* C11: abnormal exit never frees the lock with the environment unrestored.
\* When a panicking thread releases the mutex, whether it unwinds out of the
\* critical section or out of lock_env itself, every variable of its pairs
\* holds its pre-acquisition value.
C11_AbnormalExitRestored ==
    [][\A t \in Threads :
         (panicking[t] /\ guard[t] # "none" /\ guard'[t] = "none") =>
            /\ poisoned' /\ ~locked'
            /\ \A n \in NamedIn(variables[t]) \cap Names :
                  env'[n] = entry_env[t][n]]_vars

\* Two entries of a snapshot name the same variable.
Duplicates(pv, i, j) == i < j /\ pv[i][1] = pv[j][1]

\* C12: duplicate names resolve by last snapshot wins.  When EnvGuard::drop
\* has finished, each variable of the snapshot holds the previous_value
\* recorded by the last entry naming it.
C12_LastSnapshotWins ==
    \A t \in Threads :
        (pc[t] = "unlock" /\ guard[t] = "EnvGuard") =>
            \A n \in NamedIn(previous_values[t]) :
                env[n] = LastPreviousValue(previous_values[t], n)

\* Release has run over a snapshot naming one variable twice with different
\* previous values, and the variable holds the second.
C12_Witness ==
    \E t \in Threads :
        /\ pc[t] = "unlock" /\ guard[t] = "EnvGuard"
        /\ Len(previous_values[t]) = 2
        /\ Duplicates(previous_values[t], 1, 2)
        /\ previous_values[t][1][2] # previous_values[t][2][2]
        /\ env[previous_values[t][2][1]] = previous_values[t][2][2]

\* C13: interleaved snapshot-then-apply.  The snapshot has one entry per
\* pair taken so far, in input order and with the pair's name; the entry of a
\* first occurrence records what env::var gave when the mutex was obtained,
\* the entry of a later occurrence records what the previous pair of that
\* name set; and each pair is applied in the step that snapshots it.
C13_InterleavedSnapshotApply ==
    /\ [](\A t \in Threads :
            (guard[t] # "none" /\ ~panicking[t] /\ pc[t] # "lock") =>
               /\ Len(previous_values[t]) = Len(variables[t])
               /\ \A i \in 1..Len(variables[t]) :
                    LET n == variables[t][i][1]
                        earlier == {j \in 1..(i-1) : variables[t][j][1] = n}
                    IN  /\ previous_values[t][i][1] = n
                        /\ previous_values[t][i][2] =
                             IF earlier = {}
                             THEN EnvVarOk(entry_env[t], n)
                             ELSE variables[t][
                                    CHOOSE j \in earlier :
                                       \A k \in earlier : k <= j][2])
    /\ [][\A t \in Threads :
            (pc[t] = "apply" /\ pc'[t] = "apply"
               /\ variables'[t] # variables[t]) =>
                 LET pair == variables'[t][Len(variables'[t])]
                 IN  /\ variables'[t] = Append(variables[t], pair)
                     /\ env' = [env EXCEPT ![pair[1]] = pair[2]]]_vars

\* lock_env has returned for an input naming one variable twice: the second
\* entry recorded the value the first pair had set, not the original one.
C13_Witness ==
    \E t \in Threads :
        /\ pc[t] = "held" /\ guard[t] = "EnvGuard"
        /\ Len(variables[t]) = 2
        /\ variables[t][1][1] = variables[t][2][1]
        /\ previous_values[t][2][2] = variables[t][1][2]
        /\ previous_values[t][2][2] # EnvVarOk(entry_env[t], variables[t][1][1])

\* C14: the snapshot is fixed at acquisition.  While an EnvGuard is alive its
\* previous_values never change, and when the critical section wrote the
\* environment, drop still leaves each variable of the snapshot at the value
\* captured at acquisition.
C14_SnapshotFixed ==
    /\ [][\A t \in Threads :
            (guard[t] = "EnvGuard" /\ guard'[t] = "EnvGuard") =>
                previous_values'[t] = previous_values[t]]_vars
    /\ [](\A t \in Threads :
            (pc[t] = "unlock" /\ guard[t] = "EnvGuard" /\ writes[t] > 0) =>
                \A i \in 1..Len(previous_values[t]) :
                    (\A j \in (i+1)..Len(previous_values[t]) :
                        previous_values[t][j][1] # previous_values[t][i][1])
                    => env[previous_values[t][i][1]] = previous_values[t][i][2])

\* The critical section has overwritten a variable with something other than
\* the captured value, and is still inside the guard's scope.
C14_Witness ==
    \E t \in Threads :
        /\ pc[t] = "held" /\ guard[t] = "EnvGuard" /\ writes[t] > 0
        /\ Len(previous_values[t]) = 1
        /\ env[previous_values[t][1][1]] # previous_values[t][1][2]
        /\ env[previous_values[t][1][1]] # variables[t][1][2]

\* C15: the guard lifecycle is one-way and restoration runs exactly once.
\* What a thread owns only goes none -> MutexGuard -> EnvGuard -> none (or
\* MutexGuard -> none when lock_env unwinds); the restore loop only moves
\* forward, one entry at a time, only inside drop, the environment is not
\* written by drop otherwise, and the guard is released once, when every
\* entry has been written exactly once.
C15_GuardLifecycle ==
    [][\A t \in Threads :
         /\ guard'[t] # guard[t] =>
               <<guard[t], guard'[t]>> \in
                  {<<"none", "MutexGuard">>, <<"MutexGuard", "EnvGuard">>,
                   <<"EnvGuard", "none">>, <<"MutexGuard", "none">>}
         /\ (guard[t] = "none" /\ guard'[t] = "none") =>
               (restored'[t] = 0 /\ previous_values'[t] = <<>>)
         /\ (guard[t] = "EnvGuard" /\ guard'[t] = "EnvGuard") =>
               /\ restored'[t] \in {restored[t], restored[t] + 1}
               /\ restored'[t] # restored[t] => pc[t] = "drop"
               /\ (pc[t] \in {"drop", "unlock"} /\ env' # env) =>
                     restored'[t] = restored[t] + 1
               /\ pc[t] = "drop" => pc'[t] \in {"drop", "unlock"}
               /\ pc[t] = "unlock" => pc'[t] = "unlock"
         /\ (guard[t] = "EnvGuard" /\ guard'[t] = "none") =>
               /\ restored[t] = Len(previous_values[t])
               /\ ~locked'
               /\ pc'[t] = "idle"]_vars

\* A guard is halfway through its restoration.
C15_Witness ==
    \E t \in Threads :
        /\ pc[t] = "drop" /\ guard[t] = "EnvGuard"
        /\ Len(previous_values[t]) = 2
        /\ restored[t] = 1

\* C16: snapshot fidelity.  The entry lock_env appends records exactly what
\* the variable held when it was read: absent only when it was unset, and
\* its value, Unicode or not, when it was set.
C16_SnapshotFidelity ==
    [][\A t \in Threads :
         Len(previous_values'[t]) = Len(previous_values[t]) + 1 =>
            LET entry == previous_values'[t][Len(previous_values'[t])]
            IN  entry[2] = env[entry[1]]]_vars

\* C17: frame of acquire and release.  From the moment a thread obtains the
\* mutex until it releases it, every variable no pair of its input has named
\* holds the value it had when the mutex was obtained.
C17_Frame ==
    \A t \in Threads :
        guard[t] # "none" =>
            \A n \in Names \ NamedIn(variables[t]) :
                env[n] = entry_env[t][n]

\* A guard over an input naming only X has been dropped while Y is set, and
\* a guard over the empty input is alive.
C17_Witness ==
    \/ \E t \in Threads :
          /\ pc[t] = "unlock" /\ guard[t] = "EnvGuard"
          /\ NamedIn(variables[t]) = {"X"}
          /\ env["Y"] # None
          /\ env["X"] # env["Y"]
    \/ \E t \in Threads :
          /\ pc[t] = "held" /\ variables[t] = <<>>
          /\ \E n \in Names : env[n] # None

\* ===================================================================== system
Next ==
    \E t \in Threads :
        \/ Call(t)
        \/ NestedCall(t)
        \/ Lock(t)
        \/ ApplyNext(t)
        \/ ApplyEnd(t)
        \/ CsWrite(t)
        \/ CsExit(t)
        \/ CsPanic(t)
        \/ RestoreNext(t)
        \/ RestoreEnd(t)
        \/ Unlock(t)

Spec == Init /\ [][Next]_vars

\* ------------------------------------------------------------------ progress
\* Whether a lock_env call gets the mutex, returns or unwinds depends on its
\* input only through SetVarPanics, so progress is checked with one pair the
\* platform accepts, one whose name it rejects and one whose value it rejects.
LivePairs == {<<"X", Some("a")>>, <<"", None>>, <<"X", Some(NulValue)>>}

ApplyNextLive(t) == \E pair \in LivePairs : ApplyPair(t, pair)

NextLive ==
    \E t \in Threads :
        \/ Call(t)
        \/ NestedCall(t)
        \/ Lock(t)
        \/ ApplyNextLive(t)
        \/ ApplyEnd(t)
        \/ CsWrite(t)
        \/ CsExit(t)
        \/ CsPanic(t)
        \/ RestoreNext(t)
        \/ RestoreEnd(t)
        \/ Unlock(t)

\* A running thread goes on running: a lock() on a free mutex returns, the
\* finite input runs out, the scope holding the guard ends (normally or by
\* panic), the restore loop and the unwind proceed.  No fairness between the
\* threads waiting for the mutex, and none for new lock_env calls.
Progress(t) ==
    \/ Lock(t)
    \/ ApplyEnd(t)
    \/ CsExit(t)
    \/ CsPanic(t)
    \/ RestoreNext(t)
    \/ RestoreEnd(t)
    \/ Unlock(t)

LiveSpec ==
    Init /\ [][NextLive]_vars /\ \A t \in Threads : WF_vars(Progress(t))

\* A thread waits in ENV_MUTEX.lock() and owns no guard.
Blocked(t) == pc[t] = "lock" /\ guard[t] = "none"
SomeBlocked == \E t \in Threads : Blocked(t)
\* A thread waits in a nested lock_env call.
Nested(t) == pc[t] = "lock" /\ guard[t] = "EnvGuard"
\* lock_env has returned an EnvGuard to the thread.
Returned(t) == guard[t] = "EnvGuard"
\* lock_env is unwinding from a panic of set_var/remove_var on its last pair.
PanickedInApply(t) ==
    /\ pc[t] = "unlock" /\ guard[t] = "MutexGuard" /\ panicking[t]
    /\ variables[t] # <<>>
    /\ SetVarPanics(variables[t][Len(variables[t])][1],
                    variables[t][Len(variables[t])][2])

\* C8 as stated: with no nested call ever, threads blocked behind a holder
\* eventually see the mutex free, and once threads are blocked on the free
\* mutex one of them obtains it and its lock_env call returns.
C8_ReleaseUnblocksWaiters ==
    [](\A t \in Threads : ~Nested(t)) =>
        /\ (SomeBlocked /\ locked) ~> (SomeBlocked /\ ~locked)
        /\ (SomeBlocked /\ ~locked) ~> (\E t \in Threads : Returned(t))

\* C8 amended: with no nested call ever, threads blocked behind a holder
\* eventually see the mutex free, and once threads are blocked on the free
\* mutex one of them obtains it and its lock_env call returns a guard or
\* panics in set_var/remove_var on one of its pairs.
C8_ReleaseUnblocksWaitersOrPanics ==
    [](\A t \in Threads : ~Nested(t)) =>
        /\ (SomeBlocked /\ locked) ~> (SomeBlocked /\ ~locked)
        /\ (SomeBlocked /\ ~locked) ~>
              (\E t \in Threads : Returned(t) \/ PanickedInApply(t))

\* A thread holds a guard it got after waiting, on a mutex a panic poisoned,
\* while the other threads are blocked.
C8_Witness ==
    \E t \in Threads :
        /\ Returned(t) /\ pc[t] = "held" /\ poisoned
        /\ \A u \in Threads \ {t} : Blocked(u)
====
